---- MODULE Spec2Model ----
(***************************************************************************)
(* Model of backend/app/config.py.                                         *)
(*                                                                         *)
(*   class Settings(BaseSettings):                                         *)
(*       supabase_url: str                                                 *)
(*       supabase_anon_key: str                                            *)
(*       class Config:                                                     *)
(*           env_file = ".env"                                             *)
(*   settings = Settings()                                                 *)
(*                                                                         *)
(* The class declares two required str fields and inherits every other     *)
(* setting of pydantic_settings.BaseSettings: names are matched against    *)
(* the process environment first and the env_file second, an empty string  *)
(* is a value (env_ignore_empty is off), names of the env_file that match  *)
(* no field are passed on as extra inputs and extra inputs are forbidden,  *)
(* the model is not frozen.  Names are compared case-insensitively; the    *)
(* model works on the normalised (lower-case) names.  The env_file is      *)
(* modelled by the bindings python-dotenv parses out of it.                *)
(***************************************************************************)
EXTENDS Naturals, FiniteSets, Sequences, TLC

\* ---- bounds ------------------------------------------------------------
MaxCalls == 3      \* Settings() calls in one process, the module's included
MaxChanges == 1    \* changes of the environment / env_file after start-up

\* ---- values ------------------------------------------------------------
None == "<None>"                      \* an unset variable / unbound name
Vals == {"", " a", "b"}               \* string values, "" and padded included
OptVals == Vals \cup {None}

FieldNames == {"supabase_url", "supabase_anon_key"}
ExtraName == "other_name"             \* an env_file name that is no field
DotenvNames == FieldNames \cup {ExtraName}
FileVals == {None, "", "b"}            \* values python-dotenv parses out
ExtraVals == {None, "b"}

NoData == [f \in FieldNames |-> None]
NoFile == [n \in DotenvNames |-> None]

VARIABLES
    environ,          \* os.environ restricted to the field names
    env_file_exists,  \* whether ".env" is a file
    dotenv,           \* the bindings of ".env" (NoFile when it does not exist)
    pc,               \* "start", "loaded" (module imported), "failed"
    settings,         \* the module global: [bound, id, data]
    error,            \* the exception that left the module, or None
    built,            \* history: the data the singleton was constructed with
    last,             \* history: outcome of the latest Settings() call
    dirty,            \* history: inputs changed since the latest call
    ncalls,           \* history: number of Settings() calls
    nchanges,         \* history: number of input changes
    assigned,         \* history: an attribute of the singleton was assigned
    observed          \* the value the latest attribute read returned, or None

vars == <<environ, env_file_exists, dotenv, pc, settings, error, built, last,
          dirty, ncalls, nchanges, assigned,
          observed>>

\* ---- the read path -----------------------------------------------------

Strip(v) == IF v = " a" THEN "a" ELSE v

\* Variant: values are stripped of surrounding whitespace.
EnvSettingsSourceStripped(env) == [f \in FieldNames |-> Strip(env[f])]

\* Variant: an empty value counts as unset (env_ignore_empty).
EnvSettingsSourceIgnoreEmpty(env) ==
    [f \in FieldNames |-> IF env[f] = "" THEN None ELSE env[f]]

\* EnvSettingsSource: the value of each field found in the environment.
EnvSettingsSource(env) == [f \in FieldNames |-> env[f]]

\* Variant: the env_file is never consulted.
DotEnvSettingsSourceNoFile(ex, de) == [f \in FieldNames |-> None]

\* DotEnvSettingsSource: the value of each field found in the env_file;
\* a missing file contributes nothing.
DotEnvSettingsSource(ex, de) ==
    [f \in FieldNames |-> IF ex THEN de[f] ELSE None]

\* The env_file names that match no field; they are handed to the model
\* as extra inputs.
DotEnvExtras(ex, de) ==
    {n \in DotenvNames \ FieldNames : ex /\ de[n] # None}

\* Variant: the env_file wins over the environment.
MergeSourcesFileFirst(e, d) ==
    [f \in FieldNames |-> IF d[f] # None THEN d[f] ELSE e[f]]

\* Source priority: environment over env_file, decided per field.
MergeSources(e, d) ==
    [f \in FieldNames |-> IF e[f] # None THEN e[f] ELSE d[f]]

\* Validation of the two required str fields with extra = forbid.
MissingFields(data) == {f \in FieldNames : data[f] = None}

Ok(data) == [ok |-> TRUE, exc |-> None, data |-> data]
Raise(kind) == [ok |-> FALSE, exc |-> kind, data |-> NoData]

\* Variant: a missing field defaults to the empty string.
ValidateWithDefault(data, extras) ==
    IF extras = {}
    THEN Ok([f \in FieldNames |-> IF data[f] = None THEN "" ELSE data[f]])
    ELSE Raise("ValidationError")

Validate(data, extras) ==
    IF MissingFields(data) = {} /\ extras = {}
    THEN Ok(data)
    ELSE Raise("ValidationError")

\* Settings(): the constructor call.
Settings(env, ex, de) ==
    Validate(MergeSources(EnvSettingsSource(env), DotEnvSettingsSource(ex, de)),
             DotEnvExtras(ex, de))

Unbound == [bound |-> FALSE, id |-> 0, data |-> NoData]
NoResult == [ok |-> FALSE, exc |-> None, data |-> NoData]

\* ---- initial states ----------------------------------------------------
Init ==
    /\ environ \in [FieldNames -> OptVals]
    /\ env_file_exists \in BOOLEAN
    /\ dotenv \in [DotenvNames -> FileVals]
    /\ dotenv[ExtraName] \in ExtraVals
    /\ (~env_file_exists => dotenv = NoFile)
    /\ pc = "start"
    /\ settings = Unbound
    /\ error = None
    /\ built = NoData
    /\ last = NoResult
    /\ dirty = FALSE
    /\ ncalls = 0
    /\ nchanges = 0
    /\ assigned = FALSE
    /\ observed = None

\* ---- actions -----------------------------------------------------------

\* Variant: the values found in the env_file are exported to the process
\* environment while loading (load_dotenv style).
ModuleLoadExporting ==
    /\ pc = "start"
    /\ LET r == Settings(environ, env_file_exists, dotenv) IN
        /\ last' = r
        /\ IF r.ok
           THEN /\ settings' = [bound |-> TRUE, id |-> ncalls + 1, data |-> r.data]
                /\ built' = r.data
                /\ pc' = "loaded"
                /\ error' = error
           ELSE /\ settings' = settings
                /\ built' = built
                /\ pc' = "failed"
                /\ error' = r.exc
    /\ environ' = MergeSources(EnvSettingsSource(environ),
                               DotEnvSettingsSource(env_file_exists, dotenv))
    /\ ncalls' = ncalls + 1
    /\ dirty' = FALSE
    /\ UNCHANGED <<env_file_exists, dotenv, nchanges, assigned, observed>>

\* Variant: the global is bound to the partially populated data before
\* validation raises.
ModuleLoadBindsFirst ==
    /\ pc = "start"
    /\ LET r == Settings(environ, env_file_exists, dotenv)
           m == MergeSources(EnvSettingsSource(environ),
                             DotEnvSettingsSource(env_file_exists, dotenv)) IN
        /\ last' = r
        /\ settings' = [bound |-> TRUE, id |-> ncalls + 1, data |-> m]
        /\ built' = m
        /\ IF r.ok
           THEN /\ pc' = "loaded"
                /\ error' = error
           ELSE /\ pc' = "failed"
                /\ error' = r.exc
    /\ ncalls' = ncalls + 1
    /\ dirty' = FALSE
    /\ UNCHANGED <<environ, env_file_exists, dotenv, nchanges, assigned, observed>>

\* settings = Settings()  -- executed once, when the module is imported.
ModuleLoad ==
    /\ pc = "start"
    /\ LET r == Settings(environ, env_file_exists, dotenv) IN
        /\ last' = r
        /\ IF r.ok
           THEN /\ settings' = [bound |-> TRUE, id |-> ncalls + 1, data |-> r.data]
                /\ built' = r.data
                /\ pc' = "loaded"
                /\ error' = error
           ELSE /\ settings' = settings
                /\ built' = built
                /\ pc' = "failed"
                /\ error' = r.exc
    /\ ncalls' = ncalls + 1
    /\ dirty' = FALSE
    /\ UNCHANGED <<environ, env_file_exists, dotenv, nchanges, assigned, observed>>

\* Variant: a later call rebinds the module global to the new instance.
CallRebinding ==
    /\ pc = "loaded"
    /\ ncalls < MaxCalls
    /\ LET r == Settings(environ, env_file_exists, dotenv) IN
        /\ last' = r
        /\ settings' = IF r.ok
                       THEN [bound |-> TRUE, id |-> ncalls + 1, data |-> r.data]
                       ELSE settings
    /\ ncalls' = ncalls + 1
    /\ dirty' = FALSE
    /\ UNCHANGED <<environ, env_file_exists, dotenv, pc, error, built,
                   nchanges, assigned, observed>>

\* Variant: a call consumes the variables it read (os.environ.pop).
CallPopping ==
    /\ pc = "loaded"
    /\ ncalls < MaxCalls
    /\ last' = Settings(environ, env_file_exists, dotenv)
    /\ environ' = [f \in FieldNames |-> None]
    /\ ncalls' = ncalls + 1
    /\ dirty' = FALSE
    /\ UNCHANGED <<env_file_exists, dotenv, pc, settings, error, built,
                   nchanges, assigned, observed>>

\* A consumer that imported the module calls Settings() again; the new
\* instance is the caller's, the module global is not rebound.
Call ==
    /\ pc = "loaded"
    /\ ncalls < MaxCalls
    /\ last' = Settings(environ, env_file_exists, dotenv)
    /\ ncalls' = ncalls + 1
    /\ dirty' = FALSE
    /\ UNCHANGED <<environ, env_file_exists, dotenv, pc, settings, error,
                   built, nchanges, assigned, observed>>

\* Variant: an attribute read re-resolves the field from the current
\* environment and env_file.
ReadFieldLive(f) ==
    /\ settings.bound
    /\ LET m == MergeSources(EnvSettingsSource(environ),
                             DotEnvSettingsSource(env_file_exists, dotenv)) IN
        /\ settings' = [settings EXCEPT !.data[f] = m[f]]
        /\ observed' = m[f]
    /\ UNCHANGED <<environ, env_file_exists, dotenv, pc, error, built, last,
                   dirty, ncalls, nchanges, assigned>>

\* A consumer reads settings.<f>.
ReadField(f) ==
    /\ settings.bound
    /\ observed' = settings.data[f]
    /\ UNCHANGED <<environ, env_file_exists, dotenv, pc, settings, error,
                   built, last, dirty, ncalls, nchanges,
                   assigned>>

\* A consumer assigns settings.<f> = v; the model is not frozen and does
\* not validate assignments, so the attribute is replaced.
SetAttr(f, v) ==
    /\ settings.bound
    /\ settings' = [settings EXCEPT !.data[f] = v]
    /\ assigned' = TRUE
    /\ UNCHANGED <<environ, env_file_exists, dotenv, pc, error, built, last,
                   dirty, ncalls, nchanges,
                   observed>>

\* The process environment changes after start-up (os.environ[k] = v,
\* del os.environ[k]).
PutEnv(k, v) ==
    /\ pc = "loaded"
    /\ nchanges < MaxChanges
    /\ environ[k] # v
    /\ environ' = [environ EXCEPT ![k] = v]
    /\ nchanges' = nchanges + 1
    /\ dirty' = TRUE
    /\ UNCHANGED <<env_file_exists, dotenv, pc, settings, error, built, last,
                   ncalls, assigned, observed>>

\* The env_file is edited (created when missing) after start-up.
WriteDotenv(n, v) ==
    /\ pc = "loaded"
    /\ nchanges < MaxChanges
    /\ n = ExtraName => v \in ExtraVals
    /\ (~env_file_exists \/ dotenv[n] # v)
    /\ dotenv' = [dotenv EXCEPT ![n] = v]
    /\ env_file_exists' = TRUE
    /\ nchanges' = nchanges + 1
    /\ dirty' = TRUE
    /\ UNCHANGED <<environ, pc, settings, error, built, last, ncalls, assigned, observed>>

\* The env_file is removed after start-up.
UnlinkDotenv ==
    /\ pc = "loaded"
    /\ nchanges < MaxChanges
    /\ env_file_exists
    /\ dotenv' = NoFile
    /\ env_file_exists' = FALSE
    /\ nchanges' = nchanges + 1
    /\ dirty' = TRUE
    /\ UNCHANGED <<environ, pc, settings, error, built, last, ncalls, assigned, observed>>

Next ==
    \/ ModuleLoad
    \/ Call
    \/ \E f \in FieldNames : ReadField(f)
    \/ \E f \in FieldNames, v \in Vals : SetAttr(f, v)
    \/ \E k \in FieldNames, v \in OptVals : PutEnv(k, v)
    \/ \E n \in DotenvNames, v \in FileVals : WriteDotenv(n, v)
    \/ UnlinkDotenv

Spec == Init /\ [][Next]_vars

\* ---- properties ---------------------------------------------------------

\* A step that runs the read path (the module's load or a later call).
Construct == ncalls' = ncalls + 1

\* What a field resolves to in the current inputs, None when unresolved.
Resolved(f) ==
    IF environ[f] # None THEN environ[f]
    ELSE IF env_file_exists THEN dotenv[f] ELSE None

NoExtras == \A n \in DotenvNames \ FieldNames : ~env_file_exists \/ dotenv[n] = None

NonEmptyEnv == \A f \in FieldNames : environ[f] \in Vals \ {""}

\* C1 as stated: with both environment variables non-empty, whatever the
\* env_file holds, the read path succeeds and returns exactly those values.
C1_AnyFile ==
    [][(Construct /\ NonEmptyEnv) =>
          /\ last'.ok
          /\ \A f \in FieldNames : last'.data[f] = environ[f]]_vars

\* C1 amended: with both environment variables non-empty and no name in the
\* env_file other than the fields', the read path succeeds and each field
\* equals exactly its variable's value; the module's load binds the global
\* to those values.
C1_ExactEnvValues ==
    [][(Construct /\ NonEmptyEnv /\ NoExtras) =>
          /\ last'.ok
          /\ \A f \in FieldNames : last'.data[f] = environ[f]
          /\ (pc = "start" => settings'.bound /\ settings'.data = last'.data)]_vars

C1_Witness ==
    /\ pc = "loaded" /\ ncalls = 1 /\ ~assigned /\ nchanges = 0
    /\ environ["supabase_url"] = " a" /\ environ["supabase_anon_key"] = "b"
    /\ env_file_exists /\ dotenv["supabase_url"] = "b"
    /\ dotenv["supabase_anon_key"] = ""
    /\ settings.data["supabase_url"] = " a"
    /\ settings.data["supabase_anon_key"] = "b"

\* C2: per field, a value set in the environment is the value of the field
\* the read path produces, whatever the env_file holds for that name; a field
\* unset in the environment takes the env_file's value in the same result.
C2_EnvPrecedence ==
    [][(Construct /\ last'.ok) =>
          \A f \in FieldNames :
              IF environ[f] # None
              THEN last'.data[f] = environ[f]
              ELSE last'.data[f] = dotenv[f]]_vars

C2_Witness ==
    /\ pc = "loaded" /\ ncalls = 1 /\ ~assigned /\ nchanges = 0
    /\ env_file_exists
    /\ environ["supabase_url"] = " a" /\ dotenv["supabase_url"] = "b"
    /\ environ["supabase_anon_key"] = None /\ dotenv["supabase_anon_key"] = "b"
    /\ settings.data["supabase_url"] = " a"
    /\ settings.data["supabase_anon_key"] = "b"

FromFile(f) == environ[f] = None /\ env_file_exists /\ dotenv[f] # None

AllResolved == \A f \in FieldNames : Resolved(f) # None

\* C3 as stated: a field unset in the environment and present in the
\* env_file makes the read path succeed with the file's value (the other
\* field being resolvable).
C3_AnyFile ==
    [][(Construct /\ AllResolved /\ \E f \in FieldNames : FromFile(f)) =>
          /\ last'.ok
          /\ \A f \in FieldNames : FromFile(f) => last'.data[f] = dotenv[f]]_vars

\* C3 amended: the same, provided the env_file holds no name other than the
\* fields'.
C3_FileFallback ==
    [][(Construct /\ AllResolved /\ NoExtras /\ \E f \in FieldNames : FromFile(f)) =>
          /\ last'.ok
          /\ \A f \in FieldNames : FromFile(f) => last'.data[f] = dotenv[f]]_vars

C3_Witness ==
    /\ pc = "loaded" /\ ncalls = 1 /\ ~assigned /\ nchanges = 0
    /\ \A f \in FieldNames : FromFile(f)
    /\ dotenv["supabase_url"] = "b" /\ dotenv["supabase_anon_key"] = ""
    /\ settings.bound /\ settings.data["supabase_url"] = "b"
    /\ settings.data["supabase_anon_key"] = ""

\* C4: when some field is unset in both the environment and the env_file,
\* the read path raises the one error kind and yields no data; at module
\* load the global stays unbound.
C4_MissingFails ==
    [][(Construct /\ \E f \in FieldNames : Resolved(f) = None) =>
          /\ ~last'.ok
          /\ last'.exc = "ValidationError"
          /\ last'.data = NoData
          /\ (pc = "start" =>
                pc' = "failed" /\ ~settings'.bound /\ error' = "ValidationError")]_vars

C4_Witness ==
    /\ pc = "failed" /\ ncalls = 1
    /\ environ["supabase_url"] = "b" /\ environ["supabase_anon_key"] = None
    /\ ~env_file_exists
    /\ ~settings.bound /\ error = "ValidationError" /\ ~last.ok

C6_EmptyRejected ==
    [][Construct =>
          /\ ((\E f \in FieldNames : Resolved(f) = "") => ~last'.ok)
          /\ (last'.ok => \A f \in FieldNames : last'.data[f] # "")]_vars

\* C6 amended: the empty string is a value; with every field resolved and
\* no other name in the env_file the read path succeeds and a field that
\* resolves to "" is "", so a constructed Settings has two string fields,
\* possibly empty.
C6_EmptyAccepted ==
    [][Construct =>
          /\ ((AllResolved /\ NoExtras) =>
                /\ last'.ok
                /\ \A f \in FieldNames : Resolved(f) = "" => last'.data[f] = "")
          /\ (last'.ok => \A f \in FieldNames : last'.data[f] \in Vals)]_vars

C6_Witness ==
    /\ pc = "loaded" /\ ncalls = 1 /\ ~assigned /\ nchanges = 0
    /\ environ["supabase_url"] = "" /\ settings.data["supabase_url"] = ""
    /\ environ["supabase_anon_key"] = None /\ dotenv["supabase_anon_key"] = ""
    /\ settings.data["supabase_anon_key"] = ""

Failed == pc = "failed" \/ error # None

\* C8: after a failed load the exception has left the module at its first
\* and only call, the global is unbound, no attribute was or can be read and
\* no further step of the process is possible.
C8_FailFast ==
    Failed =>
        /\ pc = "failed" /\ error = "ValidationError"
        /\ ncalls = 1 /\ ~last.ok
        /\ ~settings.bound
        /\ observed = None
        /\ ~ENABLED Next

C8_Witness ==
    /\ pc = "failed" /\ error = "ValidationError" /\ ~settings.bound
    /\ environ["supabase_url"] = "b" /\ Resolved("supabase_anon_key") = None

C10_ReadOnly ==
    [][Construct => UNCHANGED <<environ, env_file_exists, dotenv>>]_vars

C10_Witness ==
    /\ pc = "loaded" /\ ncalls = 1 /\ nchanges = 0
    /\ environ["supabase_url"] = None /\ dotenv["supabase_url"] = "b"
    /\ settings.data["supabase_url"] = "b"

TypeOK ==
    /\ environ \in [FieldNames -> OptVals]
    /\ env_file_exists \in BOOLEAN
    /\ dotenv \in [DotenvNames -> FileVals]
    /\ pc \in {"start", "loaded", "failed"}
    /\ settings.bound \in BOOLEAN
    /\ ncalls \in 0..MaxCalls
====
